---- MODULE Spec2Model ----
(***************************************************************************)
(* A model of the notebook RNN_continuous_to_discrete.ipynb.               *)
(*                                                                         *)
(* The program is a Jupyter notebook: its state is the kernel's state (the *)
(* notebook globals, numpy's process-wide random generator, TensorFlow's   *)
(* default graph and graph-level seed) and its operations are the code     *)
(* cells, which the user may run in any order and any number of times.     *)
(* Init is the kernel after the import cell (lines 52-58) has run.         *)
(*                                                                         *)
(* Abstractions:                                                           *)
(*  - numpy's generator is a full-period congruential generator over       *)
(*    RngStates states; a drawn float is the fraction state / RngStates,   *)
(*    so a value lies in [0, 1) and 0.5 is drawn when RngStates is even.   *)
(*  - the literals of the data cell (seed = 20, rand(1000, 10)) are the    *)
(*    cell's inputs: the seed and the two sizes are drawn from small sets  *)
(*    that contain the negative and the zero cases.                        *)
(*  - a tensor is a node of the graph with its static shape and the names  *)
(*    of its inputs; None (an unknown dimension) is -1.                    *)
(*  - the repository pins no TensorFlow release. Releases that validate    *)
(*    static shapes when an op is constructed raise at line 166; the       *)
(*    recorded output of the cell (line 137) shows a run that reached      *)
(*    line 167. tfValidates is chosen in Init and never changes.           *)
(***************************************************************************)
EXTENDS Integers, Sequences, FiniteSets, TLC

VARIABLES
    rng,          \* state of numpy's process-wide generator (np.random)
    defined,      \* the notebook globals that have been assigned
    seed,         \* the global seed (line 86)
    data,         \* the global data (line 89): [shape, val], val row-major
    labels,       \* the global labels (lines 90, 92)
    graph,        \* the nodes of TensorFlow's default graph
    tfSeed,       \* the graph-level seed (tf.set_random_seed)
    minimize,     \* the global minimize (line 184): the training op
    tfValidates,  \* whether the installed TensorFlow validates static shapes at construction
    cellResult,   \* the cell run last, how it ended, and the inputs of a data cell
    ref           \* history: one earlier successful run of the data cell

vars == <<rng, defined, seed, data, labels, graph, tfSeed, minimize,
          tfValidates, cellResult, ref>>

----------------------------------------------------------------------------
\* Bounds of the model.

\* number of states of the random generator; a float is state / RngStates
RngStates == 8
\* the data cell's batch size is drawn from -1..MaxBatch
MaxBatch == 2
\* the data cell's sequence length is drawn from -1..MaxLen
MaxLen == 2

----------------------------------------------------------------------------
\* Program constants.

\* seed = 20 (line 86)
DataSeed == 20
\* def reset_graph(seed=42) (line 55)
ResetSeed == 42
\* the hyperparameter cell (lines 112-116); learning_rate in units of 0.001
n_steps == 10
n_inputs == 1
n_neurons == 7
n_outputs == 10
learning_rate == 1
\* for i in range(0,10) (line 163)
LoopCount == 10

\* an unknown dimension of a static shape
None == 0 - 1

----------------------------------------------------------------------------
\* numpy: the process-wide generator and the arrays of the data cell.

\* the inputs of a data cell run
SeedInputs == {0 - 1, 0, DataSeed}
BatchInputs == (0 - 1)..MaxBatch
LenInputs == (0 - 1)..MaxLen

\* the value a global has before it is assigned (never read: see defined)
NoArray == [shape |-> <<0, 0>>, val |-> <<>>]
NoArgs == [seed |-> 0, batch_size |-> 0, seq_len |-> 0]

\* the generator state np.random.seed(s) installs: a function of s alone
SeedState(s) == s % RngStates

\* np.random.seed raises ValueError for a seed outside 0..2^32-1
SeedRaises(s) == s < 0

\* a data cell that draws from the generator as it finds it
np_random_seed_skipped(state, s) == state

\* np.random.seed(seed) (line 87): the state after the call
np_random_seed(state, s) == SeedState(s)

\* one step of the generator
NextState(x) == (5 * x + 3) % RngStates

\* k successive draws from state x: the floats drawn, as numerators over
\* RngStates, and the state the generator is left in
RECURSIVE RandomSample(_, _)
RandomSample(x, k) ==
    IF k = 0 THEN [val |-> <<>>, state |-> x]
    ELSE LET nx == NextState(x)
             rest == RandomSample(nx, k - 1)
         IN [val |-> <<nx>> \o rest.val, state |-> rest.state]

\* a size check that also rejects a zero size
NegativeDimsOrZero(b, n) == b <= 0 \/ n <= 0

\* np.random.rand and np.zeros raise ValueError ("negative dimensions are
\* not allowed") for a negative size; a zero size gives an empty array
NegativeDims(b, n) == b < 0 \/ n < 0

\* an array of zeros with the two sizes swapped
np_zeros_transposed(b, n) == [shape |-> <<n, b>>, val |-> [k \in 1..(b * n) |-> 0]]

\* np.zeros((b, n)) (line 90)
np_zeros(b, n) == [shape |-> <<b, n>>, val |-> [k \in 1..(b * n) |-> 0]]

\* the element at row i, column t (1-based) of a two-dimensional array
Elem(a, i, t) == a.val[(i - 1) * a.shape[2] + t]

\* a comparison that also holds at 0.5
GreaterOrEqualHalf(v) == 2 * v >= RngStates

\* v > .5 for the float v / RngStates (line 92)
GreaterThanHalf(v) == 2 * v > RngStates

\* np.where(data > .5) (line 92): the index pairs where the comparison holds
np_where(d) ==
    {p \in (1..d.shape[1]) \X (1..d.shape[2]) : GreaterThanHalf(Elem(d, p[1], p[2]))}

\* labels[idx] = 1 (line 92): the array with 1 at every index pair of idx
AssignOnes(z, idx) ==
    [shape |-> z.shape,
     val |-> [k \in 1..Len(z.val) |->
                IF \E p \in idx : (p[1] - 1) * z.shape[2] + p[2] = k
                THEN 1 ELSE z.val[k]]]

\* what a cell run leaves in cellResult
Result(cell, status, line, args) ==
    [cell |-> cell, status |-> status, line |-> line, args |-> args]

\* the history of a data cell run: the inputs and outputs of one earlier
\* successful run, and whether the generator has since been reseeded by
\* reset_graph or by a data cell run with other inputs
NoRef == [set |-> FALSE, reseeded |-> FALSE, args |-> NoArgs,
          data |-> NoArray, labels |-> NoArray]
Reseeded(r) == IF r.set THEN [r EXCEPT !.reseeded = TRUE] ELSE r
OtherRun(r, args) == IF r.args # args THEN Reseeded(r) ELSE r

\* The data cell (lines 86-94) with seed s and sizes b, n.
RunDataCell(s, b, n, remember) ==
    LET args == [seed |-> s, batch_size |-> b, seq_len |-> n]
        seeded == np_random_seed(rng, s)
        drawn == RandomSample(seeded, b * n)
        d == [shape |-> <<b, n>>, val |-> drawn.val]
        l == AssignOnes(np_zeros(b, n), np_where(d))
    IN /\ seed' = s
       /\ UNCHANGED <<graph, tfSeed, minimize, tfValidates>>
       /\ IF SeedRaises(s)
          THEN \* line 87 raises: the generator is untouched
               /\ cellResult' = Result("data", "ValueError", 87, args)
               /\ defined' = defined \cup {"seed"}
               /\ UNCHANGED <<rng, data, labels, ref>>
          ELSE IF NegativeDims(b, n)
          THEN \* line 89 raises: the generator is reseeded, nothing is drawn
               /\ cellResult' = Result("data", "ValueError", 89, args)
               /\ defined' = defined \cup {"seed"}
               /\ rng' = seeded
               /\ ref' = OtherRun(ref, args)
               /\ UNCHANGED <<data, labels>>
          ELSE /\ rng' = drawn.state
               /\ data' = d
               /\ labels' = l
               /\ defined' = defined \cup {"seed", "data", "labels"}
               /\ IF b = 0
                  THEN \* print(data[0]) (line 93) raises IndexError
                       /\ cellResult' = Result("data", "IndexError", 93, args)
                       /\ ref' = OtherRun(ref, args)
                  ELSE /\ cellResult' = Result("data", "ok", 0, args)
                       /\ ref' = IF remember
                                 THEN [set |-> TRUE, reseeded |-> FALSE, args |-> args,
                                       data |-> d, labels |-> l]
                                 ELSE OtherRun(ref, args)

----------------------------------------------------------------------------
\* TensorFlow: the default graph built by the model cell.

\* a node of the graph: a tensor (or a variable) with its static shape and
\* the names of the nodes it is computed from; a name is <<text, index>>
Node(name, op, inputs, shape, trainable) ==
    [name |-> name, op |-> op, inputs |-> inputs, shape |-> shape,
     trainable |-> trainable]

Find(g, name) == CHOOSE x \in g : x.name = name
Has(g, name) == \E x \in g : x.name = name

\* a placeholder whose batch dimension is fixed to the sequence length
PlaceholderShapeFixedBatch(steps, width) == <<steps, steps, width>>

\* the shape [None, n_steps, width] of a placeholder (lines 146-147)
PlaceholderShape(steps, width) == <<None, steps, width>>

\* whether a placeholder of the declared static shape takes a value of the
\* actual shape: the same rank, and every declared dimension None or equal
IsCompatibleWith(declared, actual) ==
    /\ Len(declared) = Len(actual)
    /\ \A k \in 1..Len(declared) : declared[k] = None \/ declared[k] = actual[k]

\* X and y (lines 146-147)
Placeholders ==
    {Node(<<"X", 0>>, "Placeholder", <<>>, PlaceholderShape(n_steps, n_inputs), FALSE),
     Node(<<"y", 0>>, "Placeholder", <<>>, PlaceholderShape(n_steps, n_outputs), FALSE)}

\* the variables of cell, a BasicRNNCell of n_neurons units (line 150),
\* created by its first use
CellVariables ==
    {Node(<<"rnn/basic_rnn_cell/kernel", 0>>, "Variable", <<>>,
          <<n_inputs + n_neurons, n_neurons>>, TRUE),
     Node(<<"rnn/basic_rnn_cell/bias", 0>>, "Variable", <<>>, <<n_neurons>>, TRUE)}

\* tf.nn.dynamic_rnn(cell, X) (lines 151, 161) under the name scope: the
\* per-step outputs and the final state, both computed from X and the
\* cell's variables
dynamic_rnn(scope) ==
    LET ins == <<<<"X", 0>>, <<"rnn/basic_rnn_cell/kernel", 0>>,
                 <<"rnn/basic_rnn_cell/bias", 0>>>>
    IN {Node(<<"transpose", scope>>, "dynamic_rnn", ins,
             <<None, n_steps, n_neurons>>, FALSE),
        Node(<<"while/Exit_2", scope>>, "dynamic_rnn", ins,
             <<None, n_neurons>>, FALSE)}

\* the globals rnn_outputs and states after line 161: the second call's
rnn_outputs == <<"transpose", 1>>
states == <<"while/Exit_2", 1>>

\* curr_state = rnn_outputs[:,i,:] (line 164)
StridedSlice(i) ==
    {Node(<<"strided_slice", i>>, "StridedSlice", <<rnn_outputs>>,
          <<None, n_neurons>>, FALSE)}

\* logits = tf.layers.dense(states, n_outputs) (line 165): a new layer, with
\* its own kernel and bias, at every iteration
dense(i) ==
    {Node(<<"dense/kernel", i>>, "Variable", <<>>, <<n_neurons, n_outputs>>, TRUE),
     Node(<<"dense/bias", i>>, "Variable", <<>>, <<n_outputs>>, TRUE),
     Node(<<"dense/BiasAdd", i>>, "Dense",
          <<states, <<"dense/kernel", i>>, <<"dense/bias", i>>>>,
          <<None, n_outputs>>, FALSE)}

\* xentropy = tf.nn.sparse_softmax_cross_entropy_with_logits(labels=y,
\* logits=logits) (line 166); inputs are <<logits, labels>>
SparseXent(i) ==
    {Node(<<"SparseSoftmaxCrossEntropyWithLogits", i>>, "SparseXent",
          <<<<"dense/BiasAdd", i>>, <<"y", 0>>>>, <<None, n_steps>>, FALSE)}

\* the sparse cross-entropy takes class indices: labels of the rank of the
\* logits minus one
SparseXentAccepts(logitsShape, labelsShape) ==
    Len(labelsShape) = Len(logitsShape) - 1

\* the shape with every dimension but the last one flattened
Flatten(shape) == <<None, shape[Len(shape)]>>

\* the dense cross-entropy takes one distribution per row: flattened
\* logits and labels of the same shape
SoftmaxXentAccepts(logitsShape, labelsShape) ==
    Flatten(logitsShape) = Flatten(labelsShape)

\* the logits of the training loss (line 181): logits=rnn_outputs
TrainingLogits == rnn_outputs

\* cross_entropy (lines 181-182): inputs of the first are <<logits, labels>>
CrossEntropy ==
    {Node(<<"softmax_cross_entropy_with_logits", 0>>, "SoftmaxXent",
          <<TrainingLogits, <<"y", 0>>>>, <<None, n_steps>>, FALSE),
     Node(<<"Sum", 0>>, "Sum", <<<<"softmax_cross_entropy_with_logits", 0>>>>,
          <<>>, FALSE)}

\* the names of the nodes a node is computed from, itself included
RECURSIVE Ancestors(_, _)
Ancestors(g, names) ==
    LET more == names \cup
                UNION {{x.inputs[k] : k \in 1..Len(x.inputs)} :
                       x \in {z \in g : z.name \in names}}
    IN IF more = names THEN names ELSE Ancestors(g, more)

\* the graph's trainable variables (GraphKeys.TRAINABLE_VARIABLES)
TrainableVariables(g) == {x.name : x \in {z \in g : z.trainable}}

\* optimizer = tf.train.AdamOptimizer() (line 183): no argument, so the
\* library's default learning rate, 0.001
AdamOptimizer == [learning_rate |-> 1]

\* optimizer.minimize(loss) (line 184): the op that applies a gradient to
\* every trainable variable the loss is computed from; a variable with no
\* path to the loss has no gradient and is not written
Minimize(g, loss) ==
    [defined |-> TRUE,
     learning_rate |-> AdamOptimizer.learning_rate,
     var_list |-> TrainableVariables(g) \cap Ancestors(g, {loss})]
NoMinimize == [defined |-> FALSE, learning_rate |-> 0, var_list |-> {}]

\* The loop of lines 163-166 from iteration i on, in graph g: the graph it
\* leaves and the line that raised (0: none).
RECURSIVE Loop(_, _, _)
Loop(g, i, validate) ==
    IF i = LoopCount THEN [graph |-> g, line |-> 0]
    ELSE LET g1 == g \cup StridedSlice(i) \cup dense(i)
         IN IF validate /\ ~SparseXentAccepts(Find(g1, <<"dense/BiasAdd", i>>).shape,
                                              Find(g1, <<"y", 0>>).shape)
            THEN [graph |-> g1, line |-> 166]
            ELSE Loop(g1 \cup SparseXent(i), i + 1, validate)

\* The statements of the model cell after reset_graph() (lines 146-184),
\* in an empty graph: the graph, the training op and the line that raised.
BuildModel(validate) ==
    LET g0 == Placeholders \cup CellVariables \cup dynamic_rnn(0) \cup dynamic_rnn(1)
        looped == Loop(g0, 0, validate)
        g1 == looped.graph \cup CrossEntropy
    IN IF looped.line # 0
       THEN [graph |-> looped.graph, minimize |-> NoMinimize, line |-> looped.line]
       ELSE IF validate /\ ~SoftmaxXentAccepts(Find(g1, TrainingLogits).shape,
                                               Find(g1, <<"y", 0>>).shape)
       THEN [graph |-> looped.graph, minimize |-> NoMinimize, line |-> 181]
       ELSE [graph |-> g1, minimize |-> Minimize(g1, <<"Sum", 0>>), line |-> 0]

\* the two outcomes of building the model
BuiltValidating == BuildModel(TRUE)
BuiltDeferring == BuildModel(FALSE)

----------------------------------------------------------------------------
\* The cells.

\* The hyperparameter cell (lines 112-116).
RunHyperCell ==
    /\ defined' = defined \cup {"hyper"}
    /\ cellResult' = Result("hyper", "ok", 0, NoArgs)
    /\ UNCHANGED <<rng, seed, data, labels, graph, tfSeed, minimize, tfValidates, ref>>

\* The model cell (lines 142-184). reset_graph() (lines 55-58) empties the
\* default graph and reseeds both TensorFlow and numpy with 42; the first
\* placeholder then needs the hyperparameters.
RunModelCell ==
    LET built == IF tfValidates THEN BuiltValidating ELSE BuiltDeferring
    IN /\ tfSeed' = ResetSeed
       /\ rng' = SeedState(ResetSeed)
       /\ ref' = Reseeded(ref)
       /\ UNCHANGED <<seed, data, labels, tfValidates>>
       /\ IF "hyper" \notin defined
          THEN /\ graph' = {}
               /\ cellResult' = Result("model", "NameError", 146, NoArgs)
               /\ UNCHANGED <<defined, minimize>>
          ELSE /\ graph' = built.graph
               /\ IF built.line # 0
                  THEN /\ cellResult' = Result("model", "ValueError", built.line, NoArgs)
                       /\ defined' = defined \cup {"X", "y"}
                       /\ UNCHANGED minimize
                  ELSE /\ cellResult' = Result("model", "ok", 0, NoArgs)
                       /\ defined' = defined \cup {"X", "y", "minimize"}
                       /\ minimize' = built.minimize

\* The cell of lines 204-233: one string literal, so nothing is built, and
\* neither training_op nor init exists.
RunCommentedCell ==
    /\ cellResult' = Result("commented", "ok", 0, NoArgs)
    /\ UNCHANGED <<rng, defined, seed, data, labels, graph, tfSeed, minimize,
                   tfValidates, ref>>

\* The kernel after the import cell (lines 52-58): numpy has seeded its
\* generator from the system's entropy, the default graph is empty.
Init ==
    /\ rng \in 0..(RngStates - 1)
    /\ defined = {}
    /\ seed = 0
    /\ data = NoArray
    /\ labels = NoArray
    /\ graph = {}
    /\ tfSeed = None
    /\ minimize = NoMinimize
    /\ tfValidates \in BOOLEAN
    /\ cellResult = Result("import", "ok", 0, NoArgs)
    /\ ref = NoRef

Next ==
    \/ \E s \in SeedInputs, b \in BatchInputs, n \in LenInputs :
          RunDataCell(s, b, n, FALSE)
    \/ RunHyperCell
    \/ RunModelCell
    \/ RunCommentedCell

Spec == Init /\ [][Next]_vars

\* The same cells, with the history of one earlier successful data cell run
\* kept for comparison; the data cell is run with inputs that give a batch:
\* a seed the generator accepts, a positive batch size, the full length.
NextDet ==
    \/ \E s \in {z \in SeedInputs : ~SeedRaises(z)}, b \in 1..MaxBatch, r \in BOOLEAN :
          RunDataCell(s, b, MaxLen, r)
    \/ RunHyperCell
    \/ RunModelCell
    \/ RunCommentedCell

SpecDet == Init /\ [][NextDet]_vars

----------------------------------------------------------------------------
\* Properties.

\* the inputs of the data cell run last
LastArgs == cellResult.args
RanData == cellResult.cell = "data"

\* C1: in every batch the data cell has produced, labels has the shape of
\* data, every label is 0 or 1, and a label is 1 exactly where the value is
\* strictly greater than 0.5 (so the value 0.5 itself is labelled 0).
C1_LabelsThreshold ==
    "labels" \in defined =>
        /\ "data" \in defined
        /\ labels.shape = data.shape
        /\ Len(labels.val) = Len(data.val)
        /\ \A i \in 1..data.shape[1], t \in 1..data.shape[2] :
              /\ Elem(labels, i, t) \in {0, 1}
              /\ Elem(labels, i, t) = 1 <=> 2 * Elem(data, i, t) > RngStates

\* a batch holding the value 0.5, labelled 0, and a value labelled 1
C1_Witness ==
    /\ "labels" \in defined
    /\ \E k \in 1..Len(data.val) : 2 * data.val[k] = RngStates /\ labels.val[k] = 0
    /\ \E k \in 1..Len(data.val) : 2 * data.val[k] > RngStates /\ labels.val[k] = 1

\* C2: after a data cell run with positive batch_size and seq_len, data and
\* labels both have the shape (batch_size, seq_len): batch_size * seq_len
\* elements each, at the same positions.
C2_Shapes ==
    (RanData /\ cellResult.status = "ok"
       /\ LastArgs.batch_size > 0 /\ LastArgs.seq_len > 0) =>
        /\ data.shape = <<LastArgs.batch_size, LastArgs.seq_len>>
        /\ labels.shape = <<LastArgs.batch_size, LastArgs.seq_len>>
        /\ Len(data.val) = LastArgs.batch_size * LastArgs.seq_len
        /\ DOMAIN labels.val = DOMAIN data.val

\* a batch that is not square
C2_Witness ==
    /\ RanData /\ cellResult.status = "ok"
    /\ LastArgs.batch_size > 0 /\ LastArgs.seq_len > LastArgs.batch_size
    /\ data.shape = <<LastArgs.batch_size, LastArgs.seq_len>>

\* C3: a successful data cell run with the seed and sizes of an earlier
\* successful run produces the data and labels of that run, whatever ran in
\* between (reset_graph in the model cell, data cell runs with other inputs).
C3_Determinism ==
    [][(cellResult'.cell = "data" /\ cellResult'.status = "ok"
          /\ ref.set /\ ref.args = cellResult'.args)
       => (data' = ref.data /\ labels' = ref.labels)]_vars

\* a second run with the inputs of a remembered one, after a reseeding
C3_Witness ==
    /\ RanData /\ cellResult.status = "ok"
    /\ ref.set /\ ref.reseeded /\ ref.args = LastArgs
    /\ Len(data.val) > 1
    /\ data = ref.data

C5_Original ==
    [][cellResult'.cell = "data" =>
        /\ rng' = rng
        /\ graph' = graph /\ tfSeed' = tfSeed /\ minimize' = minimize
      ]_vars

\* the generator state a data cell run with inputs a leaves behind
GeneratorAfter(a) ==
    RandomSample(SeedState(a.seed),
                 IF NegativeDims(a.batch_size, a.seq_len) THEN 0
                 ELSE a.batch_size * a.seq_len).state

\* C5, amended: a data cell run leaves the graph, the graph-level seed and
\* the training op as they were, but not the process-wide generator: unless
\* the seed is rejected, the run leaves the generator reseeded from its seed
\* and advanced by the draws made, whatever its state was before.
C5_Amended ==
    [][cellResult'.cell = "data" =>
        /\ graph' = graph /\ tfSeed' = tfSeed /\ minimize' = minimize
        /\ rng' = IF SeedRaises(cellResult'.args.seed) THEN rng
                  ELSE GeneratorAfter(cellResult'.args)
      ]_vars

\* a successful run, in a kernel that holds a graph, that left the
\* generator where its seed and its draws put it
C5_Witness ==
    /\ RanData /\ cellResult.status = "ok"
    /\ graph # {}
    /\ Len(data.val) > 0
    /\ rng = GeneratorAfter(LastArgs)
    /\ rng # SeedState(ResetSeed)

\* the shapes of the batches a caller may feed
FeedDims == {n_inputs, MaxBatch, n_neurons, n_steps}
FeedShapes ==
    {<<a, b>> : a \in FeedDims, b \in FeedDims}
    \cup {<<a, b, c>> : a \in FeedDims, b \in FeedDims, c \in FeedDims}
    \cup (IF "data" \in defined THEN {data.shape} ELSE {})

C8_AllParametersUpdated ==
    minimize.defined =>
        /\ minimize.var_list = TrainableVariables(graph)
        /\ minimize.learning_rate = learning_rate

\* C10: the logits and the labels of the training cross-entropy have the
\* same shape, and the Sampler's labels have the shape of y.
C10_XentShapesAgree ==
    Has(graph, <<"softmax_cross_entropy_with_logits", 0>>) =>
        LET x == Find(graph, <<"softmax_cross_entropy_with_logits", 0>>)
        IN /\ Find(graph, x.inputs[1]).shape = Find(graph, x.inputs[2]).shape
           /\ "labels" \in defined => labels.shape = Find(graph, <<"y", 0>>).shape

====
